---- MODULE Spec2Model ----
(***************************************************************************)
(* Model of assam: visibility of astronomical targets against solar-system *)
(* bodies (assam/visibility/astro_target.py) and batch sky-bitmap          *)
(* generation (assam/visualisation/visualisation_module.py).               *)
(*                                                                         *)
(* Angles are whole degrees and epochs are whole day counts.  Sky          *)
(* positions lie on one great circle, so that the separation of two        *)
(* positions is the absolute difference of their angles.  Python lists and *)
(* numpy vectors are sequences; a Python index i is position i+1 here.     *)
(***************************************************************************)
EXTENDS Integers, Sequences, FiniteSets, TLC

VARIABLES
    epochs,            \* observer epoch series shared by all coordinates (days)
    priority,          \* AstroTarget.priority
    subtargets,        \* AstroTarget.subtargets
    mean_coordinates,  \* AstroTarget.mean_coordinates
    obstime,           \* AstroTarget.obstime
    visibility,        \* AstroTarget.visibility
    contacts,          \* AstroTarget.contacts
    stats,             \* AstroTarget.stats
    raised,            \* exception the last AstroTarget call ended with
    call,              \* the last AstroTarget call and its solar_bodies argument
    probe,             \* receiver and argument of AstroSubtarget.calculate_visibility
    sub_result,        \* what AstroSubtarget.calculate_visibility returned
    built,             \* the last TargetContact constructed directly
    vm,                \* VisualisationModule: solar_bodies, targets, failing epochs
    pc,                \* position of generate_bitmaps
    num_workers,       \* size of the multiprocessing pool
    taken,             \* number of tasks handed to workers so far
    running,           \* epoch indices being computed by workers
    results,           \* finished tasks: epoch index -> outcome
    solar_bitmaps,     \* local list solar_bitmaps of generate_bitmaps
    target_bitmaps,    \* local list target_bitmaps of generate_bitmaps
    stored,            \* self.solar_bitmaps / self.target_bitmaps
    vm_raised          \* exception generate_bitmaps ended with

targetVars == <<priority, subtargets, mean_coordinates, obstime, visibility,
                contacts, stats, raised, call>>
exclVars == <<probe, sub_result, built>>
poolVars == <<vm, pc, num_workers, taken, running, results, solar_bitmaps,
              target_bitmaps, stored, vm_raised>>
vars == <<epochs, targetVars, exclVars, poolVars>>

----------------------------------------------------------------------------
(* Bounds *)

MaxEpochs == 2          \* epochs of a target's time base
MaxSubtargets == 2      \* subtargets of one target
MaxSolarBodies == 2     \* length of a solar_bodies list
MaxPriority == 2        \* largest target priority
MaxLen == 8             \* length of a visibility series given to calculate_contacts
MaxStep == 2            \* largest gap between consecutive epochs (days)
MaxPos == 4             \* largest sky position of a probed subtarget (degrees)
MaxRt == 1              \* largest subtarget angular radius
MaxRh == 1              \* largest solar body angular radius
MaxBandRadius == 3      \* largest soft radius
MaxBands == 2           \* soft radius bands of one probed solar body
MaxProbeEpochs == 1     \* epochs of a probed subtarget
MaxIndex == 3           \* timesteps of the spacecraft frame
MaxWorkers == 2         \* workers of the pool
MaxEnd == 3             \* largest end day of a contact built directly
MaxShortLen == 5        \* length of a visibility series where the priority or the benefit varies

----------------------------------------------------------------------------
(* Values *)

NoError == "none"

Abs(x) == IF x < 0 THEN -x ELSE x

Min(a, b) == IF a < b THEN a ELSE b

RECURSIVE Gcd(_, _)
Gcd(a, b) == IF b = 0 THEN a ELSE Gcd(b, a % b)

RECURSIVE SumSeq(_)
SumSeq(s) == IF s = <<>> THEN 0 ELSE Head(s) + SumSeq(Tail(s))

SeqsUpTo(S, n) == UNION {[1..k -> S] : k \in 0..n}

\* A numpy boolean result: a vector ("1d") or a scalar ("0d"); "unset" is an
\* attribute that was never assigned.
Unset == [shape |-> "unset", v |-> <<>>]
Vector(v) == [shape |-> "1d", v |-> v]
Scalar(b) == [shape |-> "0d", v |-> <<b>>]

\* separation of two sky positions: a non-negative angle
Separation(a, b) == Abs(a - b)

----------------------------------------------------------------------------
(* AstroSubtarget.calculate_visibility *)

\* np.all(np.array(rows), axis=0): an empty list is an empty vector, whose
\* reduction is the scalar True; k rows of length n reduce to n booleans.
NpAllAxis0(rows) ==
    IF rows = <<>>
    THEN Scalar(TRUE)
    ELSE Vector([t \in 1..Len(rows[1]) |-> \A k \in 1..Len(rows) : rows[k][t]])

AngularSeparation(st, sb) ==
    [t \in 1..Len(st.coordinates) |->
        Separation(sb.coordinates[t], st.coordinates[t])]

\* BasicVisibility with touching disks counted as not visible
BasicVisibility_strict(st, sb) ==
    [t \in 1..Len(st.coordinates) |->
        (Separation(sb.coordinates[t], st.coordinates[t])
            - st.angular_radius - sb.angular_radius[t]) > 0]

\* basic visibility: the first row of the visibility list
BasicVisibility(st, sb) ==
    LET sep == AngularSeparation(st, sb)
    IN  [t \in 1..Len(sep) |->
            (sep[t] - st.angular_radius - sb.angular_radius[t]) >= 0]

\* one soft radius restriction: inner and outer violation, combined, inverted
\* SoftVisibility with the inner edge tested on the far limb of the subtarget
SoftVisibility_farLimb(st, sb, band) ==
    LET sep == AngularSeparation(st, sb)
        radius_inner == band[1]
        radius_outer == band[2]
    IN  [t \in 1..Len(sep) |->
            LET visibility_inner == (sep[t] - st.angular_radius - radius_inner) > 0
                visibility_outer == (sep[t] - st.angular_radius - radius_outer) < 0
            IN  ~(visibility_inner /\ visibility_outer)]

SoftVisibility(st, sb, band) ==
    LET sep == AngularSeparation(st, sb)
        radius_inner == band[1]
        radius_outer == band[2]
    IN  [t \in 1..Len(sep) |->
            LET visibility_inner == (sep[t] + st.angular_radius - radius_inner) > 0
                visibility_outer == (sep[t] - st.angular_radius - radius_outer) < 0
            IN  ~(visibility_inner /\ visibility_outer)]

AstroSubtarget_calculate_visibility(st, sb) ==
    LET rows == <<BasicVisibility(st, sb)>> \o
                [k \in 1..Len(sb.soft_radius) |->
                    SoftVisibility(st, sb, sb.soft_radius[k])]
    IN  [visibility |-> NpAllAxis0(rows),
         angular_separation |-> AngularSeparation(st, sb)]

----------------------------------------------------------------------------
(* rle and TargetContact *)

Diff(a) == [k \in 1..(Len(a) - 1) |-> a[k + 1] - a[k]]

Cumsum(a) == [k \in 1..Len(a) |-> SumSeq(SubSeq(a, 1, k))]

\* np.where(y): the Python indices at which y is true, ascending
Where(y) == SelectSeq([k \in 1..Len(y) |-> k - 1], LAMBDA j : y[j + 1])

\* run lengths z, start indices p and run values of ia; (None, None, None)
\* for an empty array
rle(ia) ==
    LET n == Len(ia)
        y == [k \in 1..(n - 1) |-> ia[k + 1] # ia[k]]
        i == Where(y) \o <<n - 1>>
        z == Diff(<<-1>> \o i)
        c == Cumsum(<<0>> \o z)
        p == SubSeq(c, 1, Len(c) - 1)
    IN  IF n = 0
        THEN [none |-> TRUE, z |-> <<>>, p |-> <<>>, v |-> <<>>]
        ELSE [none |-> FALSE, z |-> z, p |-> p,
              v |-> [k \in 1..Len(i) |-> ia[i[k] + 1]]]

\* a rational number in lowest terms with a positive denominator
Rat(num, den) ==
    LET g == Gcd(Abs(num), Abs(den))
        sgn == IF den < 0 THEN -1 ELSE 1
    IN  [num |-> sgn * (num \div g), den |-> sgn * (den \div g)]

RatTimesInt(r, k) == Rat(r.num * k, r.den)

\* TargetContact that scales the benefit by the duration whatever the flag
TargetContact_alwaysDifferential(start, end, benefit, differential_benefit) ==
    LET duration == end - start
    IN  [start |-> start, end |-> end, duration |-> duration,
         benefit |-> RatTimesInt(benefit, duration)]

\* TargetContact that counts both end days into the duration
TargetContact_inclusive(start, end, benefit, differential_benefit) ==
    LET duration == end - start + 1
    IN  [start |-> start, end |-> end, duration |-> duration,
         benefit |-> IF differential_benefit
                     THEN RatTimesInt(benefit, duration)
                     ELSE benefit]

\* TargetContact.__init__ without verbose time: start and end are day counts
TargetContact(start, end, benefit, differential_benefit) ==
    LET duration == end - start
    IN  [start |-> start, end |-> end, duration |-> duration,
         benefit |-> IF differential_benefit
                     THEN RatTimesInt(benefit, duration)
                     ELSE benefit]

----------------------------------------------------------------------------
(* AstroTarget *)

NoContacts == [defined |-> FALSE, list |-> <<>>]

NoCall == [op |-> "__init__", solar_bodies |-> <<>>]

Call(op) == [op |-> op, solar_bodies |-> <<>>]

\* sine and cosine of the angles the model uses for ICRS latitude and longitude
Sin(a) == CASE a = 0 -> 0 [] a = 90 -> 1 [] a = 180 -> 0 [] a = -90 -> -1

Cos(a) == CASE a = 0 -> 1 [] a = 90 -> 0 [] a = 180 -> -1 [] a = -90 -> 0

NaN == [nan |-> TRUE, num |-> 0, den |-> 1]

\* np.mean: nan (with a warning, no exception) for an empty list
NpMean(xs) ==
    IF xs = <<>> THEN NaN
    ELSE [nan |-> FALSE, num |-> SumSeq(xs), den |-> Len(xs)]

\* np.arctan2 of two means over the same list: the angle is the direction of
\* (y, x), written in lowest terms; arctan2(0, 0) is the angle 0, that of (0, 1)
NpArctan2(my, mx) ==
    IF my.nan \/ mx.nan THEN [nan |-> TRUE, y |-> 0, x |-> 0]
    ELSE IF my.num = 0 /\ mx.num = 0 THEN [nan |-> FALSE, y |-> 0, x |-> 1]
    ELSE LET g == Gcd(Abs(my.num), Abs(mx.num))
         IN  [nan |-> FALSE, y |-> my.num \div g, x |-> mx.num \div g]

NoneCoordinates ==
    [kind |-> "None", lon |-> [nan |-> TRUE, y |-> 0, x |-> 0],
                      lat |-> [nan |-> TRUE, y |-> 0, x |-> 0]]

\* the mean coordinates update_properties computes from a subtarget list
MeanCoordinates(subs) ==
    LET lat == [k \in 1..Len(subs) |-> subs[k].icrs_coordinates.lat]
        lon == [k \in 1..Len(subs) |-> subs[k].icrs_coordinates.lon]
        sinOf(a) == [k \in 1..Len(a) |-> Sin(a[k])]
        cosOf(a) == [k \in 1..Len(a) |-> Cos(a[k])]
        mean_lat == NpArctan2(NpMean(sinOf(lat)), NpMean(cosOf(lat)))
        mean_lon == NpArctan2(NpMean(sinOf(lon)), NpMean(cosOf(lon)))
    IN  [kind |-> "SkyCoord", lon |-> mean_lon, lat |-> mean_lat]

\* list.remove: the list without the first element equal to x
RECURSIVE ListRemove(_, _)
ListRemove(s, x) ==
    IF s = <<>> THEN <<>>
    ELSE IF Head(s) = x THEN Tail(s)
    ELSE <<Head(s)>> \o ListRemove(Tail(s), x)

InList(s, x) == \E k \in 1..Len(s) : s[k] = x

\* Subtargets and solar bodies a target is given, over the time base ep: a
\* subtarget of radius 0 or 1 stays at 2 degrees or moves one degree per epoch
\* from 1 degree; a solar body stays at 0 degrees, with radius 0, with a radius
\* alternating between 1 and 0, or with radius 0 and the soft band (2, 3)
Trajectory(k, n) == [t \in 1..n |-> IF k = 0 THEN 2 ELSE t]

Icrs(k) == IF k = 0 THEN [lat |-> 0, lon |-> 0] ELSE [lat |-> 90, lon |-> 90]

SubtargetSet(ep) ==
    {[angular_radius |-> r,
      coordinates |-> Trajectory(k, Len(ep)),
      obstime |-> ep,
      icrs_coordinates |-> Icrs((r + k) % 2)] : r \in 0..1, k \in 0..1}

SolarBody(radius, bands) ==
    [coordinates |-> [t \in 1..Len(radius) |-> 0],
     angular_radius |-> radius,
     soft_radius |-> bands]

SolarBodySet(n) ==
    {SolarBody([t \in 1..n |-> 0], <<>>),
     SolarBody([t \in 1..n |-> t % 2], <<>>),
     SolarBody([t \in 1..n |-> 0], <<(<<2, 3>>)>>)}

\* update_properties run on the list as it was before the call changed it
update_properties_body_stale ==
    mean_coordinates' = MeanCoordinates(subtargets)

update_properties_body ==
    mean_coordinates' = MeanCoordinates(subtargets')

add_subtarget(st) ==
    /\ Len(subtargets) < MaxSubtargets
    /\ subtargets' = Append(subtargets, st)
    /\ update_properties_body
    /\ raised' = NoError
    /\ call' = Call("add_subtarget")
    /\ UNCHANGED <<epochs, priority, obstime, visibility, contacts, stats>>
    /\ UNCHANGED <<exclVars, poolVars>>

remove_subtarget(st) ==
    /\ call' = Call("remove_subtarget")
    /\ IF InList(subtargets, st)
       THEN /\ subtargets' = ListRemove(subtargets, st)
            /\ update_properties_body
            /\ raised' = NoError
       ELSE /\ raised' = "ValueError"
            /\ UNCHANGED <<subtargets, mean_coordinates>>
    /\ UNCHANGED <<epochs, priority, obstime, visibility, contacts, stats>>
    /\ UNCHANGED <<exclVars, poolVars>>

update_properties ==
    /\ call' = Call("update_properties")
    /\ subtargets' = subtargets
    /\ update_properties_body
    /\ raised' = NoError
    /\ UNCHANGED <<epochs, priority, obstime, visibility, contacts, stats>>
    /\ UNCHANGED <<exclVars, poolVars>>

\* VisibilityRows without the inner loop: only the first solar body is tested
VisibilityRows_firstBody(subs, solar_bodies) ==
    IF solar_bodies = <<>> THEN <<>>
    ELSE [j \in 1..Len(subs) |->
            AstroSubtarget_calculate_visibility(subs[j], solar_bodies[1])
                .visibility.v]

\* the visibility list built by the two nested loops, subtarget-major
RECURSIVE VisibilityRows(_, _)
VisibilityRows(subs, solar_bodies) ==
    IF subs = <<>> THEN <<>>
    ELSE [k \in 1..Len(solar_bodies) |->
            AstroSubtarget_calculate_visibility(Head(subs), solar_bodies[k])
                .visibility.v]
         \o VisibilityRows(Tail(subs), solar_bodies)

AstroTarget_calculate_visibility(solar_bodies) ==
    /\ call' = [op |-> "calculate_visibility", solar_bodies |-> solar_bodies]
    /\ IF subtargets = <<>>
       THEN /\ raised' = "IndexError"
            /\ UNCHANGED <<obstime, visibility>>
       ELSE /\ obstime' = subtargets[1].obstime
            /\ visibility' = NpAllAxis0(VisibilityRows(subtargets, solar_bodies))
            /\ raised' = NoError
    /\ UNCHANGED <<epochs, priority, subtargets, mean_coordinates, contacts,
                   stats>>
    /\ UNCHANGED <<exclVars, poolVars>>

Clip(x, lo, hi) == IF x < lo THEN lo ELSE IF x > hi THEN hi ELSE x

\* KeptRuns that also keeps a visible run starting at the last index
KeptRuns_keepLast(vis) ==
    SelectSeq([k \in 1..Len(rle(vis).p) |-> k], LAMBDA k : rle(vis).v[k] = TRUE)

\* KeptRuns that keeps the runs of either value
KeptRuns_anyValue(vis) ==
    SelectSeq([k \in 1..Len(rle(vis).p) |-> k],
              LAMBDA k : rle(vis).p[k] # Len(vis) - 1)

\* the runs calculate_contacts keeps: visible, and not starting at the end
KeptRuns(vis) ==
    LET r == rle(vis)
    IN  SelectSeq([k \in 1..Len(r.p) |-> k],
                  LAMBDA k : r.v[k] = TRUE /\ r.p[k] # Len(vis) - 1)

\* EndIndex taken as the last index of the run instead of the one after it
EndIndex_inclusive(vis) ==
    [k \in 1..Len(rle(vis).p) |->
        Clip(rle(vis).p[k] + rle(vis).z[k] - 1, 0, Len(vis) - 1)]

\* the clipped end index of every run
EndIndex(vis) ==
    LET r == rle(vis)
    IN  [k \in 1..Len(r.p) |-> Clip(r.p[k] + r.z[k], 0, Len(vis) - 1)]

\* the contacts calculate_contacts builds from a non-empty visibility vector
ContactList(vis, times, prio) ==
    LET r == rle(vis)
        iend == EndIndex(vis)
        ix == KeptRuns(vis)
    IN  [k \in 1..Len(ix) |->
            TargetContact(times[r.p[ix[k]] + 1], times[iend[ix[k]] + 1],
                          Rat(1, prio), TRUE)]

calculate_contacts ==
    /\ call' = Call("calculate_contacts")
    /\ IF visibility.shape = "unset"
       THEN raised' = "AttributeError" /\ UNCHANGED contacts
       ELSE IF visibility.shape = "0d" \/ rle(visibility.v).none
       THEN raised' = "TypeError" /\ UNCHANGED contacts
       ELSE IF KeptRuns(visibility.v) # <<>> /\ priority = 0
       THEN raised' = "ZeroDivisionError" /\ UNCHANGED contacts
       ELSE /\ contacts' = [defined |-> TRUE,
                            list |-> ContactList(visibility.v, obstime, priority)]
            /\ raised' = NoError
    /\ UNCHANGED <<epochs, priority, subtargets, mean_coordinates, obstime,
                   visibility, stats>>
    /\ UNCHANGED <<exclVars, poolVars>>

\* a number of the statistics: a rational, or nan
Num(num, den) == [nan |-> FALSE, num |-> Rat(num, den).num,
                                 den |-> Rat(num, den).den]

Inf == [nan |-> FALSE, num |-> 1, den |-> 0]

\* a division of numpy floats: by zero it gives inf or nan with a warning
FloatDiv(num, den) ==
    IF den # 0 THEN Num(num, den)
    ELSE IF num = 0 THEN NaN
    ELSE IF num > 0 THEN Inf
    ELSE [Inf EXCEPT !.num = -1]

NoStats ==
    [defined |-> FALSE, mean_ra |-> NoneCoordinates.lon,
     mean_dec |-> NoneCoordinates.lat, n_contacts |-> 0,
     total_duration |-> NaN, percentage_duration |-> NaN,
     mean_duration |-> NaN, stddev_duration |-> NaN,
     min_duration |-> NaN, max_duration |-> NaN]

SeqMin(d) == CHOOSE x \in {d[k] : k \in 1..Len(d)} : \A k \in 1..Len(d) : x <= d[k]

SeqMax(d) == CHOOSE x \in {d[k] : k \in 1..Len(d)} : \A k \in 1..Len(d) : x >= d[k]

\* np.std squared: the population variance (n * sum of squares - sum^2) / n^2
Variance(d) ==
    Num(Len(d) * SumSeq([k \in 1..Len(d) |-> d[k] * d[k]]) - SumSeq(d) * SumSeq(d),
        Len(d) * Len(d))

\* OverallStats that reports zeros for a target without contacts
OverallStats_zeros(cs, times, mean) ==
    LET contact_durations == [k \in 1..Len(cs) |-> cs[k].duration]
        n_contacts == Len(contact_durations)
        total == SumSeq(contact_durations)
    IN  IF n_contacts = 0
        THEN [defined |-> TRUE, mean_ra |-> mean.lon, mean_dec |-> mean.lat,
              n_contacts |-> 0,
              total_duration |-> Num(0, 1), percentage_duration |-> Num(0, 1),
              mean_duration |-> Num(0, 1), stddev_duration |-> Num(0, 1),
              min_duration |-> Num(0, 1), max_duration |-> Num(0, 1)]
        ELSE [defined |-> TRUE, mean_ra |-> mean.lon, mean_dec |-> mean.lat,
              n_contacts |-> n_contacts,
              total_duration |-> Num(total, 1),
              percentage_duration |->
                  FloatDiv(100 * total, times[Len(times)] - times[1]),
              mean_duration |-> Num(total, n_contacts),
              stddev_duration |-> Variance(contact_durations),
              min_duration |-> Num(SeqMin(contact_durations), 1),
              max_duration |-> Num(SeqMax(contact_durations), 1)]

\* the statistics row of calculate_overall_stats for a contact list, a time
\* vector and mean coordinates; mean_ra and mean_dec are the angles of the mean
\* coordinates and stddev_duration is given by its square
OverallStats(cs, times, mean) ==
    LET contact_durations == [k \in 1..Len(cs) |-> cs[k].duration]
        n_contacts == Len(contact_durations)
        total == SumSeq(contact_durations)
    IN  IF n_contacts = 0
        THEN [defined |-> TRUE, mean_ra |-> mean.lon, mean_dec |-> mean.lat,
              n_contacts |-> 0,
              total_duration |-> Num(0, 1), percentage_duration |-> Num(0, 1),
              mean_duration |-> NaN, stddev_duration |-> NaN,
              min_duration |-> NaN, max_duration |-> NaN]
        ELSE [defined |-> TRUE, mean_ra |-> mean.lon, mean_dec |-> mean.lat,
              n_contacts |-> n_contacts,
              total_duration |-> Num(total, 1),
              percentage_duration |->
                  FloatDiv(100 * total, times[Len(times)] - times[1]),
              mean_duration |-> Num(total, n_contacts),
              stddev_duration |-> Variance(contact_durations),
              min_duration |-> Num(SeqMin(contact_durations), 1),
              max_duration |-> Num(SeqMax(contact_durations), 1)]

calculate_overall_stats ==
    /\ call' = Call("calculate_overall_stats")
    /\ IF mean_coordinates.kind = "None" \/ ~contacts.defined
       THEN raised' = "AttributeError" /\ UNCHANGED stats
       ELSE /\ stats' = OverallStats(contacts.list, obstime, mean_coordinates)
            /\ raised' = NoError
    /\ UNCHANGED <<epochs, priority, subtargets, mean_coordinates, obstime,
                   visibility, contacts>>
    /\ UNCHANGED <<exclVars, poolVars>>

\* TargetContact(target, start, end, benefit, differential_benefit,
\* verbose_time) called directly: verbose time is not implemented
NoBuilt ==
    [defined |-> FALSE, raised |-> NoError, benefit |-> Rat(0, 1),
     differential_benefit |-> FALSE,
     contact |-> TargetContact(0, 0, Rat(0, 1), FALSE)]

NewTargetContact(start, end, benefit, differential_benefit, verbose_time) ==
    /\ built' =
         IF verbose_time
         THEN [defined |-> FALSE, raised |-> "NotImplementedError",
               benefit |-> benefit, differential_benefit |-> differential_benefit,
               contact |-> NoBuilt.contact]
         ELSE [defined |-> TRUE, raised |-> NoError,
               benefit |-> benefit, differential_benefit |-> differential_benefit,
               contact |-> TargetContact(start, end, benefit, differential_benefit)]
    /\ UNCHANGED <<epochs, probe, sub_result, targetVars, poolVars>>

----------------------------------------------------------------------------
(* VisualisationModule *)

\* the sample points of the angular grid
Grid == 0..MaxPos

NoStored == [defined |-> FALSE, solar_bitmaps |-> <<>>, target_bitmaps |-> <<>>]

NoFailure == [type |-> "none", epoch |-> -1]

nindex == Len(epochs)

\* the bitmap of one solar body at a timestep: hard radius or any soft band
SolarBodyBitmap(solar_body, index) ==
    [g \in Grid |->
        LET separation == Separation(solar_body.coordinates[index + 1], g)
            hard_radius == separation <= solar_body.angular_radius[index + 1]
            soft_radius ==
                \E k \in 1..Len(solar_body.soft_radius) :
                    /\ separation >= solar_body.soft_radius[k][1]
                    /\ separation <= solar_body.soft_radius[k][2]
        IN  hard_radius \/ soft_radius]

\* generate_bitmap(index): the pair (solar_bitmap, target_bitmap)
generate_bitmap(module, index) ==
    [solar_bitmap |->
        [g \in Grid |->
            \E k \in 1..Len(module.solar_bodies) :
                SolarBodyBitmap(module.solar_bodies[k], index)[g]],
     target_bitmap |->
        [g \in Grid |->
            \E k \in 1..Len(module.targets) :
                \E j \in 1..Len(module.targets[k].subtargets) :
                    LET subtarget == module.targets[k].subtargets[j]
                    IN  Separation(subtarget.coordinates[index + 1], g)
                            <= subtarget.angular_radius]]

\* what a worker sends back for one task: the pair, or the exception the
\* computation of that epoch raised
unwrap_generate_bitmap(module, index) ==
    IF index \in module.failing
    THEN [ok |-> FALSE, exception |-> [type |-> "Exception", epoch |-> index],
          pair |-> [solar_bitmap |-> <<>>, target_bitmap |-> <<>>]]
    ELSE [ok |-> TRUE, exception |-> NoFailure,
          pair |-> generate_bitmap(module, index)]

\* generate_bitmaps is called: the pool is created with num_workers workers
generate_bitmaps(w) ==
    /\ pc = "idle"
    /\ pc' = "pool"
    /\ num_workers' = w
    /\ taken' = 0
    /\ running' = {}
    /\ results' = <<>>
    /\ solar_bitmaps' = <<>>
    /\ target_bitmaps' = <<>>
    /\ UNCHANGED <<vm, stored, vm_raised>>
    /\ UNCHANGED <<epochs, targetVars, exclVars>>

\* an idle worker takes the next task of zip([self]*nindex, range(nindex))
WorkerTake ==
    /\ pc = "pool"
    /\ taken < nindex
    /\ Cardinality(running) < num_workers
    /\ running' = running \cup {taken}
    /\ taken' = taken + 1
    /\ UNCHANGED <<vm, pc, num_workers, results, solar_bitmaps, target_bitmaps,
                   stored, vm_raised>>
    /\ UNCHANGED <<epochs, targetVars, exclVars>>

\* a worker finishes its task, in any order
WorkerFinish(i) ==
    /\ pc = "pool"
    /\ i \in running
    /\ running' = running \ {i}
    /\ results' = [j \in (DOMAIN results) \cup {i} |->
                      IF j = i THEN unwrap_generate_bitmap(vm, i) ELSE results[j]]
    /\ UNCHANGED <<vm, pc, num_workers, taken, solar_bitmaps, target_bitmaps,
                   stored, vm_raised>>
    /\ UNCHANGED <<epochs, targetVars, exclVars>>

\* ImapNext that receives whichever finished result is ready, not the one of
\* the next index (imap_unordered)
ImapNext_unordered ==
    \E i \in DOMAIN results :
        /\ pc = "pool"
        /\ Len(solar_bitmaps) < nindex
        /\ i >= Len(solar_bitmaps)
        /\ IF results[i].ok
           THEN /\ solar_bitmaps' = Append(solar_bitmaps, results[i].pair.solar_bitmap)
                /\ target_bitmaps' = Append(target_bitmaps, results[i].pair.target_bitmap)
                /\ UNCHANGED <<pc, running, vm_raised>>
           ELSE /\ pc' = "raised"
                /\ vm_raised' = results[i].exception
                /\ running' = {}
                /\ UNCHANGED <<solar_bitmaps, target_bitmaps>>
        /\ UNCHANGED <<vm, num_workers, taken, results, stored>>
        /\ UNCHANGED <<epochs, targetVars, exclVars>>

\* the for loop over p.imap receives the next result in task order and
\* appends it, or the task's exception is raised out of generate_bitmaps
ImapNext ==
    LET i == Len(solar_bitmaps)
    IN  /\ pc = "pool"
        /\ i < nindex
        /\ i \in DOMAIN results
        /\ IF results[i].ok
           THEN /\ solar_bitmaps' = Append(solar_bitmaps, results[i].pair.solar_bitmap)
                /\ target_bitmaps' = Append(target_bitmaps, results[i].pair.target_bitmap)
                /\ UNCHANGED <<pc, running, vm_raised>>
           ELSE /\ pc' = "raised"
                /\ vm_raised' = results[i].exception
                /\ running' = {}
                /\ UNCHANGED <<solar_bitmaps, target_bitmaps>>
        /\ UNCHANGED <<vm, num_workers, taken, results, stored>>
        /\ UNCHANGED <<epochs, targetVars, exclVars>>

\* the loop is over: the lists are stored and generate_bitmaps returns
GenerateBitmapsReturn ==
    /\ pc = "pool"
    /\ Len(solar_bitmaps) = nindex
    /\ stored' = [defined |-> TRUE, solar_bitmaps |-> solar_bitmaps,
                  target_bitmaps |-> target_bitmaps]
    /\ pc' = "done"
    /\ UNCHANGED <<vm, num_workers, taken, running, results, solar_bitmaps,
                   target_bitmaps, vm_raised>>
    /\ UNCHANGED <<epochs, targetVars, exclVars>>

----------------------------------------------------------------------------
(* Specifications *)

\* n epochs one day apart, from day 0
Days(n) == [t \in 1..n |-> t - 1]

\* n epochs from day 0 whose gaps alternate between g1 and g2 days
GapEpochs(n, g1, g2) ==
    [t \in 1..n |-> ((t - 1) \div 2) * (g1 + g2) + ((t - 1) % 2) * g1]

NoProbe == [st |-> [angular_radius |-> 0, coordinates |-> <<>>],
            sb |-> [coordinates |-> <<>>, angular_radius |-> <<>>,
                    soft_radius |-> <<>>]]

NoSubResult == [defined |-> FALSE, visibility |-> Unset,
                angular_separation |-> <<>>]

NoModule == [solar_bodies |-> <<>>, targets |-> <<>>, failing |-> {}]

TargetIdle ==
    /\ subtargets = <<>>
    /\ mean_coordinates = NoneCoordinates
    /\ obstime = <<>>
    /\ visibility = Unset
    /\ contacts = NoContacts
    /\ stats = NoStats
    /\ raised = NoError
    /\ call = NoCall

ExclIdle ==
    /\ probe = NoProbe
    /\ sub_result = NoSubResult
    /\ built = NoBuilt

PoolIdle ==
    /\ pc = "idle"
    /\ num_workers = 0
    /\ taken = 0
    /\ running = {}
    /\ results = <<>>
    /\ solar_bitmaps = <<>>
    /\ target_bitmaps = <<>>
    /\ stored = NoStored
    /\ vm_raised = NoFailure

(* A target from its construction on: its subtargets, mean position and
   visibility *)
Init ==
    /\ epochs \in {Days(n) : n \in 0..MaxEpochs}
    /\ priority = 1
    /\ TargetIdle
    /\ ExclIdle
    /\ vm = NoModule
    /\ PoolIdle

Next ==
    \/ \E st \in SubtargetSet(epochs) : add_subtarget(st)
    \/ \E st \in SubtargetSet(epochs) : remove_subtarget(st)
    \/ update_properties
    \/ \E sbs \in SeqsUpTo(SolarBodySet(Len(epochs)), MaxSolarBodies) :
          AstroTarget_calculate_visibility(sbs)

Spec == Init /\ [][Next]_vars

(* A target whose visibility has been calculated, against some solar bodies
   (a vector) or against none (the scalar), its subtargets removed since *)
\* a target built with a priority of P that holds a visibility series over at
\* most len epochs
TargetWithVisibility(P, len) ==
    /\ \E n \in 0..len : \E g1, g2 \in 1..MaxStep :
          epochs = GapEpochs(n, g1, g2)
    /\ priority \in P
    /\ subtargets = <<>>
    /\ mean_coordinates = MeanCoordinates(<<>>)
    /\ obstime = epochs
    /\ visibility \in {Vector(v) : v \in [1..Len(epochs) -> BOOLEAN]}
                       \cup {NpAllAxis0(<<>>)}
    /\ contacts = NoContacts
    /\ stats = NoStats
    /\ raised = NoError
    /\ call = Call("remove_subtarget")
    /\ ExclIdle
    /\ vm = NoModule
    /\ PoolIdle

InitContacts == TargetWithVisibility(1..MaxPriority, MaxLen)

NextContacts == calculate_contacts \/ calculate_overall_stats

SpecContacts == InitContacts /\ [][NextContacts]_vars

\* AstroTarget.__init__ stores any priority it is given: targets built with a
\* priority of zero or below
NonPositivePriorities == {p - MaxPriority : p \in 0..MaxPriority}

InitPriority == TargetWithVisibility(NonPositivePriorities, MaxShortLen)

NextPriority == calculate_contacts \/ calculate_overall_stats

SpecPriority == InitPriority /\ [][NextPriority]_vars

\* Contacts built by calculate_contacts and contacts built directly, from a
\* start day of 0 to an end day of up to MaxEnd, with the benefit 1/priority
\* calculate_contacts passes and with every setting of differential_benefit and
\* verbose_time
InitBenefit == TargetWithVisibility(1..MaxPriority, MaxShortLen)

NextBenefit ==
    \/ calculate_contacts
    \/ \E end \in 0..MaxEnd : \E differential_benefit, verbose_time \in BOOLEAN :
          NewTargetContact(0, end, Rat(1, priority), differential_benefit,
                           verbose_time)

SpecBenefit == InitBenefit /\ [][NextBenefit]_vars

(* One subtarget and one solar body, any geometry *)
Bands == {b \in (1..MaxBandRadius) \X (1..MaxBandRadius) : b[1] < b[2]}

\* the band lists of a probed solar body: the loop over soft_radius takes the
\* conjunction of the bands, so one list stands for its reorderings and
\* repetitions, the one whose bands ascend
BandLists ==
    {l \in SeqsUpTo(Bands, MaxBands) :
        \A k \in 1..(Len(l) - 1) :
            \/ l[k][1] < l[k + 1][1]
            \/ l[k][1] = l[k + 1][1] /\ l[k][2] < l[k + 1][2]}

InitExcl ==
    /\ epochs \in {Days(n) : n \in 0..MaxProbeEpochs}
    /\ probe \in
         [st : [angular_radius : 0..MaxRt,
                coordinates : [1..Len(epochs) -> 0..MaxPos]],
          sb : [coordinates : {[t \in 1..Len(epochs) |-> c] : c \in 0..1},
                angular_radius : [1..Len(epochs) -> 0..MaxRh],
                soft_radius : BandLists]]
    /\ sub_result = NoSubResult
    /\ built = NoBuilt
    /\ priority = 1
    /\ TargetIdle
    /\ vm = NoModule
    /\ PoolIdle

SubtargetCalculateVisibility ==
    /\ sub_result' =
         [defined |-> TRUE,
          visibility |-> AstroSubtarget_calculate_visibility(probe.st, probe.sb).visibility,
          angular_separation |->
              AstroSubtarget_calculate_visibility(probe.st, probe.sb).angular_separation]
    /\ UNCHANGED <<epochs, probe, built, targetVars, poolVars>>

NextExcl == SubtargetCalculateVisibility

SpecExcl == InitExcl /\ [][NextExcl]_vars

(* A visualisation module generating the bitmaps of all its timesteps *)
ModuleSolarBodySet(n) ==
    [coordinates : {[t \in 1..n |-> 0], [t \in 1..n |-> t - 1]},
     angular_radius : {[t \in 1..n |-> 1]},
     soft_radius : {<<>>, <<(<<2, 3>>)>>}]

ModuleTargets(ep) ==
    {<<>>} \cup
    {<<[subtargets |-> <<st>>]>> :
        st \in {s \in SubtargetSet(ep) : s.icrs_coordinates.lat = 0}}

InitBitmaps ==
    /\ epochs \in {Days(n) : n \in 0..MaxIndex}
    /\ vm \in [solar_bodies : SeqsUpTo(ModuleSolarBodySet(Len(epochs)),
                                       MaxSolarBodies),
               targets : ModuleTargets(epochs),
               failing : SUBSET (0..(Len(epochs) - 1))]
    /\ priority = 1
    /\ TargetIdle
    /\ ExclIdle
    /\ PoolIdle

NextBitmaps ==
    \/ \E w \in 1..MaxWorkers : generate_bitmaps(w)
    \/ WorkerTake
    \/ \E i \in running : WorkerFinish(i)
    \/ ImapNext
    \/ GenerateBitmapsReturn

SpecBitmaps == InitBitmaps /\ [][NextBitmaps]_vars

----------------------------------------------------------------------------
(* Properties of AstroTarget.calculate_visibility *)

CalledVisibility == call.op = "calculate_visibility" /\ raised = NoError

\* visibility of one (subtarget, occluder) pair at epoch position t
PairVisible(st, sb, t) ==
    AstroSubtarget_calculate_visibility(st, sb).visibility.v[t]

\* C1: for a target with at least one subtarget and a non-empty list of
\* occluders, the series calculate_visibility stores is true at an epoch
\* exactly when every (subtarget, occluder) pair is visible at that epoch.
C1_ConjunctionLaw ==
    (CalledVisibility /\ call.solar_bodies # <<>>) =>
        /\ visibility.shape = "1d"
        /\ Len(visibility.v) = Len(epochs)
        /\ \A t \in 1..Len(epochs) :
              visibility.v[t] <=>
                  \A j \in 1..Len(subtargets) :
                      \A k \in 1..Len(call.solar_bodies) :
                          PairVisible(subtargets[j], call.solar_bodies[k], t)

\* two subtargets, two occluders, and an epoch at which exactly one pair is
\* not visible: the target is not visible there
C1_Witness ==
    /\ CalledVisibility
    /\ Len(subtargets) = 2
    /\ Len(call.solar_bodies) = 2
    /\ visibility.shape = "1d"
    /\ \E t \in 1..Len(epochs) :
          /\ ~visibility.v[t]
          /\ Cardinality({jk \in (1..2) \X (1..2) :
                ~PairVisible(subtargets[jk[1]], call.solar_bodies[jk[2]], t)}) = 1

\* C6 (as claimed): after calculate_visibility on a target with a subtarget,
\* for any list of occluders, the empty one included, the stored visibility is
\* a boolean series with one entry per epoch; with no occluders all are true.
C6_SeriesLength ==
    (call.op = "calculate_visibility" /\ subtargets # <<>>) =>
        /\ raised = NoError
        /\ visibility.shape = "1d"
        /\ Len(visibility.v) = Len(epochs)
        /\ call.solar_bodies = <<>> =>
              \A t \in 1..Len(visibility.v) : visibility.v[t]

\* C10 (as claimed): with zero subtargets, requesting the visibility or the
\* mean position (update_properties, also through remove_subtarget) ends with
\* an error, and nothing is computed from the empty list.
C10_EmptyTargetFails ==
    (subtargets = <<>> /\
     call.op \in {"calculate_visibility", "update_properties", "remove_subtarget"})
        => raised # NoError

----------------------------------------------------------------------------
(* Properties of AstroSubtarget.calculate_visibility *)

\* C2: an epoch is reported visible exactly when (s - r_t - r_h) >= 0 and no
\* soft band (r_in, r_out) has (s + r_t - r_in) > 0 and (s - r_t - r_out) < 0;
\* touching disks and touching band edges count as visible.
C2_ExclusionModel ==
    sub_result.defined =>
        /\ sub_result.visibility.shape = "1d"
        /\ Len(sub_result.visibility.v) = Len(epochs)
        /\ \A t \in 1..Len(epochs) :
              LET s == Abs(probe.sb.coordinates[t] - probe.st.coordinates[t])
                  r_t == probe.st.angular_radius
                  r_h == probe.sb.angular_radius[t]
              IN  sub_result.visibility.v[t] <=>
                     /\ s - r_t - r_h >= 0
                     /\ \A k \in 1..Len(probe.sb.soft_radius) :
                           ~ /\ s + r_t - probe.sb.soft_radius[k][1] > 0
                             /\ s - r_t - probe.sb.soft_radius[k][2] < 0

\* an epoch where the disks touch and a band is touched at its inner edge,
\* reported visible
C2_Witness ==
    /\ sub_result.defined
    /\ \E t \in 1..Len(epochs) :
          LET s == Abs(probe.sb.coordinates[t] - probe.st.coordinates[t])
              r_t == probe.st.angular_radius
          IN  /\ sub_result.visibility.v[t]
              /\ s - r_t - probe.sb.angular_radius[t] = 0
              /\ \E k \in 1..Len(probe.sb.soft_radius) :
                    s + r_t = probe.sb.soft_radius[k][1]

\* the probes that differ from p by one enlargement: a larger subtarget
\* radius, a larger solar body radius at some epochs, one band with a lower
\* inner or a higher outer radius, or one band more
Enlarged(p) ==
    {[p EXCEPT !.st.angular_radius = @ + 1]}
    \cup {[p EXCEPT !.sb.angular_radius =
                [t \in 1..Len(epochs) |-> IF t \in T THEN @[t] + 1 ELSE @[t]]] :
            T \in (SUBSET (1..Len(epochs))) \ {{}}}
    \cup {[p EXCEPT !.sb.soft_radius[k] = <<@[1] - 1, @[2]>>] :
            k \in 1..Len(p.sb.soft_radius)}
    \cup {[p EXCEPT !.sb.soft_radius[k] = <<@[1], @[2] + 1>>] :
            k \in 1..Len(p.sb.soft_radius)}
    \cup {[p EXCEPT !.sb.soft_radius = Append(@, b)] : b \in Bands}

\* C12: an epoch reported excluded stays excluded when the subtarget radius or
\* the solar body radius grows, when a band is widened (lower inner or higher
\* outer radius) and when a band is added
C12_ExclusionMonotone ==
    sub_result.defined =>
        \A t \in 1..Len(epochs) :
            ~sub_result.visibility.v[t] =>
                \A q \in Enlarged(probe) :
                    ~AstroSubtarget_calculate_visibility(q.st, q.sb).visibility.v[t]

\* an epoch excluded by a band alone, the disks apart, for a subtarget with a
\* radius and a solar body with one band
C12_Witness ==
    /\ sub_result.defined
    /\ probe.st.angular_radius > 0
    /\ Len(probe.sb.soft_radius) = 1
    /\ \E t \in 1..Len(epochs) :
          /\ ~sub_result.visibility.v[t]
          /\ BasicVisibility(probe.st, probe.sb)[t]
          /\ \A q \in Enlarged(probe) :
                ~AstroSubtarget_calculate_visibility(q.st, q.sb).visibility.v[t]

----------------------------------------------------------------------------
(* Properties of AstroTarget.calculate_contacts *)

CalledContacts == call.op = "calculate_contacts" /\ raised = NoError

\* The runs of a series, stated without rle: a run starts at Python index i
\* when i = 0 or the sample differs from the one before
RunStarts(v) == {i \in 0..(Len(v) - 1) : i = 0 \/ v[i + 1] # v[i]}

\* the first index after the run that starts at i
RunStop(v, i) ==
    CHOOSE j \in (i + 1)..Len(v) :
        /\ \A m \in i..(j - 1) : v[m + 1] = v[i + 1]
        /\ j = Len(v) \/ v[j + 1] # v[i + 1]

\* starts of the runs that are to become contacts
ContactStarts(v) == {i \in RunStarts(v) : v[i + 1] /\ i # Len(v) - 1}

\* the k-th smallest element of a set of integers
Nth(S, k) == CHOOSE i \in S : Cardinality({j \in S : j < i}) = k - 1

\* C3: calculate_contacts makes exactly one Contact per run that is true and
\* does not start at index N-1, in run order, from epoch[start_index] to
\* epoch[min(start_index + length, N-1)]; no other run makes a Contact.
C3_ContactsPerRun ==
    (CalledContacts /\ Len(visibility.v) >= 1) =>
        LET v == visibility.v
            K == ContactStarts(v)
        IN  /\ contacts.defined
            /\ Len(contacts.list) = Cardinality(K)
            /\ \A k \in 1..Len(contacts.list) :
                  LET i == Nth(K, k)
                  IN  /\ contacts.list[k].start = obstime[i + 1]
                      /\ contacts.list[k].end =
                            obstime[Min(RunStop(v, i), Len(v) - 1) + 1]

\* the series [F,T,T,F,T,T,T,F] on days 0..7 has given exactly the contacts
\* (1, 3) and (4, 7)
C3_Witness ==
    /\ CalledContacts
    /\ visibility.v = <<FALSE, TRUE, TRUE, FALSE, TRUE, TRUE, TRUE, FALSE>>
    /\ obstime = <<0, 1, 2, 3, 4, 5, 6, 7>>
    /\ Len(contacts.list) = 2
    /\ contacts.list[1].start = 1 /\ contacts.list[1].end = 3
    /\ contacts.list[2].start = 4 /\ contacts.list[2].end = 7

\* the Python index of an epoch of the (strictly increasing) time vector
IndexOf(day) == (CHOOSE t \in 1..Len(obstime) : obstime[t] = day) - 1

\* the series that is true over [start, end) of every contact, false elsewhere
Rebuilt ==
    [t \in 1..Len(visibility.v) |->
        \E k \in 1..Len(contacts.list) :
            /\ IndexOf(contacts.list[k].start) <= t - 1
            /\ t - 1 < IndexOf(contacts.list[k].end)]

\* C4 (as claimed): the rebuilt series equals the input, except for the sample
\* of a run that starts at the last index N-1.
C4_RoundTripOriginal ==
    CalledContacts =>
        \A t \in 1..Len(visibility.v) :
            \/ Rebuilt[t] = visibility.v[t]
            \/ t = Len(visibility.v) /\ (t - 1) \in RunStarts(visibility.v)

\* C4 (amended): the rebuilt series equals the input at every index below N-1
\* and is false at N-1, whether the run of the last sample starts there or not.
C4_RoundTrip ==
    CalledContacts =>
        \A t \in 1..Len(visibility.v) :
            Rebuilt[t] = (visibility.v[t] /\ t # Len(visibility.v))

\* a true run of several samples that reaches the last index: its contact
\* ends at N-1 and the rebuilt series has lost the last sample
C4_Witness ==
    /\ CalledContacts
    /\ Len(visibility.v) >= 3
    /\ visibility.v[Len(visibility.v)]
    /\ visibility.v[Len(visibility.v) - 1]
    /\ ~Rebuilt[Len(visibility.v)]
    /\ Rebuilt[Len(visibility.v) - 1]

\* C5 (as claimed): calculate_contacts on an empty series, or on a series that
\* is false at every epoch, stores an empty Contact list and raises nothing.
C5_NothingToExtract ==
    (call.op = "calculate_contacts" /\ visibility.shape = "1d" /\
     \A t \in 1..Len(visibility.v) : ~visibility.v[t])
        => /\ raised = NoError
           /\ contacts.defined
           /\ contacts.list = <<>>

----------------------------------------------------------------------------
(* Properties of VisualisationModule.generate_bitmaps *)

\* C7: whatever the number of workers and the order in which they finish,
\* when generate_bitmaps has returned the stored solar_bitmaps and
\* target_bitmaps hold one entry per epoch index, entry i being the pair
\* generate_bitmap(i) computes.
C7_BatchOrdering ==
    pc = "done" =>
        /\ stored.defined
        /\ Len(stored.solar_bitmaps) = nindex
        /\ Len(stored.target_bitmaps) = nindex
        /\ \A i \in 0..(nindex - 1) :
              /\ stored.solar_bitmaps[i + 1] = generate_bitmap(vm, i).solar_bitmap
              /\ stored.target_bitmaps[i + 1] = generate_bitmap(vm, i).target_bitmap

\* a batch of several epochs whose pairs all differ, rendered by several workers
C7_Witness ==
    /\ pc = "done"
    /\ num_workers >= 2
    /\ nindex >= 3
    /\ \A i, j \in 1..nindex :
          i # j => /\ stored.solar_bitmaps[i] # stored.solar_bitmaps[j]
                   /\ stored.target_bitmaps[i] # stored.target_bitmaps[j]

\* the epoch indices the failure surfaced to the caller identifies
ReportedEpochs == IF vm_raised.type = "none" THEN {} ELSE {vm_raised.epoch}

\* C8 (as claimed): if the computation of at least one epoch fails, then
\* generate_bitmaps ends with a failure that reports the epoch indices that
\* failed, and never returns normally with stored bitmaps.
C8_BatchFailure ==
    (vm.failing # {} /\ pc \in {"done", "raised"}) =>
        /\ pc = "raised"
        /\ ~stored.defined
        /\ ReportedEpochs = vm.failing

\* the ExclusionModel for a point target at grid point g against a solar body
\* at a timestep
PointVisible(solar_body, index, g) ==
    AstroSubtarget_calculate_visibility(
        [angular_radius |-> 0,
         coordinates |-> [t \in 1..Len(solar_body.coordinates) |-> g]],
        solar_body).visibility.v[index + 1]

\* C9 (as claimed): a grid point of the solar bitmap of a timestep is occupied
\* exactly when the ExclusionModel, for a point target, reports it not visible
\* against at least one solar body, the boundaries s = r_h, r_in, r_out included.
C9_BitmapIsExclusionModel ==
    \A i \in DOMAIN results :
        results[i].ok =>
            \A g \in Grid :
                results[i].pair.solar_bitmap[g] <=>
                    \E k \in 1..Len(vm.solar_bodies) :
                        ~PointVisible(vm.solar_bodies[k], i, g)

----------------------------------------------------------------------------
(* Target configuration *)

\* C11: a target whose priority is zero or negative is rejected: its
\* calculate_contacts fails and it never holds a Contact
C11_PriorityRejected ==
    (priority <= 0 /\ call.op = "calculate_contacts") =>
        (raised # NoError /\ contacts.list = <<>>)

\* C17: the Contacts of one calculate_contacts call are in strictly ascending
\* start order and pairwise disjoint: each has 0 <= start_index < end_index <=
\* N-1 and an end_index strictly below the start_index of the next, so over
\* strictly increasing epochs every duration is strictly positive
C17_ContactsAscendingDisjoint ==
    CalledContacts =>
        \A k \in 1..Len(contacts.list) :
            LET c == contacts.list[k]
            IN  /\ \E t \in 1..Len(obstime) : obstime[t] = c.start
                /\ \E t \in 1..Len(obstime) : obstime[t] = c.end
                /\ 0 <= IndexOf(c.start)
                /\ IndexOf(c.start) < IndexOf(c.end)
                /\ IndexOf(c.end) <= Len(obstime) - 1
                /\ c.duration > 0
                /\ k < Len(contacts.list) =>
                      /\ IndexOf(c.end) < IndexOf(contacts.list[k + 1].start)
                      /\ c.start < contacts.list[k + 1].start

\* three contacts, the second one sample after the end of the first and the
\* last one ending on the last epoch
C17_Witness ==
    /\ CalledContacts
    /\ Len(contacts.list) = 3
    /\ IndexOf(contacts.list[2].start) = IndexOf(contacts.list[1].end) + 1
    /\ IndexOf(contacts.list[3].end) = Len(obstime) - 1

----------------------------------------------------------------------------
(* Properties of AstroTarget.calculate_overall_stats *)

CalledStats == call.op = "calculate_overall_stats" /\ raised = NoError

\* C13: over strictly increasing epochs the statistics computed after
\* calculate_contacts report a total_duration between 0 and the span from the
\* first to the last epoch, and a percentage_duration between 0 and 100
C13_DurationWithinSpan ==
    CalledStats =>
        /\ Len(obstime) >= 1
        /\ ~stats.total_duration.nan
        /\ stats.total_duration.den = 1
        /\ stats.total_duration.num >= 0
        /\ stats.total_duration.num <= obstime[Len(obstime)] - obstime[1]
        /\ ~stats.percentage_duration.nan
        /\ stats.percentage_duration.den > 0
        /\ stats.percentage_duration.num >= 0
        /\ stats.percentage_duration.num <= 100 * stats.percentage_duration.den

\* statistics of two contacts or more that cover a part of the span, the
\* percentage being 100 * total_duration / span
C13_Witness ==
    /\ CalledStats
    /\ stats.n_contacts >= 2
    /\ stats.total_duration.num > 0
    /\ stats.total_duration.num < obstime[Len(obstime)] - obstime[1]
    /\ stats.percentage_duration.num * (obstime[Len(obstime)] - obstime[1])
          = 100 * stats.total_duration.num * stats.percentage_duration.den

\* C14: for an empty contact list the statistics are n_contacts 0,
\* total_duration 0, percentage_duration 0 and nan for the mean, standard
\* deviation, minimum and maximum duration; for a non-empty list none of the
\* four is nan
C14_EmptyStatistics ==
    CalledStats =>
        /\ stats.n_contacts = Len(contacts.list)
        /\ contacts.list = <<>> =>
              /\ stats.n_contacts = 0
              /\ stats.total_duration = [nan |-> FALSE, num |-> 0, den |-> 1]
              /\ stats.percentage_duration = [nan |-> FALSE, num |-> 0, den |-> 1]
              /\ stats.mean_duration.nan
              /\ stats.stddev_duration.nan
              /\ stats.min_duration.nan
              /\ stats.max_duration.nan
        /\ contacts.list # <<>> =>
              /\ ~stats.mean_duration.nan
              /\ ~stats.stddev_duration.nan
              /\ ~stats.min_duration.nan
              /\ ~stats.max_duration.nan

\* statistics of a target whose only visible epoch is the last one: no contact
C14_Witness ==
    /\ CalledStats
    /\ Len(obstime) >= 2
    /\ visibility.v[Len(obstime)]
    /\ contacts.list = <<>>
    /\ stats.n_contacts = 0
    /\ stats.mean_duration.nan

----------------------------------------------------------------------------
(* Properties of add_subtarget and remove_subtarget *)

\* d is the mean of a list of angles: the direction of the sum of their unit
\* vectors in lowest terms, the angle 0 when the sum vanishes, nan for no angle
IsMeanAngle(d, angles) ==
    LET S == SumSeq([k \in 1..Len(angles) |-> Sin(angles[k])])
        C == SumSeq([k \in 1..Len(angles) |-> Cos(angles[k])])
    IN  IF angles = <<>> THEN d.nan
        ELSE /\ ~d.nan
             /\ IF S = 0 /\ C = 0 THEN d.y = 0 /\ d.x = 1
                ELSE /\ d.y * C = d.x * S
                     /\ d.y * S + d.x * C > 0
                     /\ Gcd(Abs(d.y), Abs(d.x)) = 1

\* C15: at the return of every add_subtarget and remove_subtarget call the
\* stored mean coordinates are the mean position of exactly the current
\* subtarget list, never that of an earlier list (a remove_subtarget that
\* raises does not return and leaves list and mean as they were)
C15_MeanOfCurrentList ==
    (call.op \in {"add_subtarget", "remove_subtarget"} /\ raised = NoError) =>
        /\ mean_coordinates.kind = "SkyCoord"
        /\ IsMeanAngle(mean_coordinates.lat,
               [k \in 1..Len(subtargets) |-> subtargets[k].icrs_coordinates.lat])
        /\ IsMeanAngle(mean_coordinates.lon,
               [k \in 1..Len(subtargets) |-> subtargets[k].icrs_coordinates.lon])

\* a removal that leaves one subtarget at latitude 90, whose mean latitude is
\* 90: with a second subtarget at another position it was 45 before
C15_Witness ==
    /\ call.op = "remove_subtarget"
    /\ raised = NoError
    /\ Len(subtargets) = 1
    /\ subtargets[1].icrs_coordinates.lat = 90
    /\ mean_coordinates.lat = [nan |-> FALSE, y |-> 1, x |-> 0]

----------------------------------------------------------------------------
(* Properties of TargetContact *)

\* C16: every Contact built by calculate_contacts has duration = end - start
\* and benefit = duration * (1 / priority), that is benefit * priority =
\* duration; a TargetContact built with differential_benefit off keeps the
\* benefit it was given whatever its duration
C16_ContactBenefit ==
    /\ contacts.defined =>
          \A k \in 1..Len(contacts.list) :
             /\ contacts.list[k].duration =
                    contacts.list[k].end - contacts.list[k].start
             /\ contacts.list[k].benefit.num * priority =
                    contacts.list[k].duration * contacts.list[k].benefit.den
    /\ (built.defined /\ ~built.differential_benefit) =>
          /\ built.contact.duration = built.contact.end - built.contact.start
          /\ built.contact.benefit = built.benefit

\* a target of priority 2 whose contacts last 2 and 3 days with benefits 1 and
\* 3/2, beside a contact of some duration built with differential_benefit off
C16_Witness ==
    /\ priority = 2
    /\ contacts.defined
    /\ \E j, k \in 1..Len(contacts.list) :
          /\ contacts.list[j].duration = 2
          /\ contacts.list[j].benefit = [num |-> 1, den |-> 1]
          /\ contacts.list[k].duration = 3
          /\ contacts.list[k].benefit = [num |-> 3, den |-> 2]
    /\ built.defined
    /\ ~built.differential_benefit
    /\ built.contact.duration > 1
    /\ built.contact.benefit = built.benefit

====
